---- MODULE Spec2Model ----
(***************************************************************************)
(* Model of BankAuditService (bank-audit.service.ts): one call of          *)
(* auditBank(bankCode, verbose) against a registry of banks, a browser     *)
(* that may fail at every awaited step, and an audits collection whose     *)
(* insertOne may reject.                                                   *)
(*                                                                         *)
(* Strings that the code transforms (bank codes, header names) are         *)
(* modelled as sequences of characters or by explicit tables, so that      *)
(* toUpperCase / toLowerCase are real conversions.  Values the code only   *)
(* copies (names, URLs, messages) are TLA+ strings.                        *)
(*                                                                         *)
(* Four specifications share the variables:                                *)
(*   Spec          one call of auditBank, one action per awaited step      *)
(*   SpecUnits     direct calls of the extractors and of the scorer        *)
(*   SpecRegistry  POST and GET /audit/banks of BankAuditController with   *)
(*                 the cache-manager entry of the bank list                *)
(*   SpecFleet     several auditBank calls in flight at the same time      *)
(***************************************************************************)
EXTENDS Integers, Sequences, FiniteSets, TLC

VARIABLES
  banks,            \* banksCollection: set of IChileanBank records
  audits,           \* auditsCollection: sequence of persisted ISecurityAuditResult
  bankCode,         \* argument of the call
  verbose,          \* argument of the call
  pc,               \* position of the call inside auditBank
  bank,             \* <<>> or <<bank>>: the const `bank`
  browserOpen,      \* a launched browser process is alive
  launches,         \* number of puppeteer.launch calls that were made
  launchConfig,     \* <<>> or <<options>> handed to puppeteer.launch
  closeCalls,       \* number of browser.close() invocations
  requestHeaders,   \* accumulator of the 'request' observer
  responseHeaders,  \* accumulator of the 'response' observer
  requestsSeen,     \* intercepted requests so far
  requestsContinued,\* intercepted requests passed on with request.continue()
  responsesSeen,    \* 'response' events so far
  response,         \* <<>> or <<HTTPResponse>> returned by page.goto
  page,             \* <<>> or <<loaded page>>: the DOM, from the first read of it on
  ssl,              \* <<>> or <<ISSLAnalysis>>
  headers,          \* <<>> or <<ISecurityHeaders>>
  authentication,   \* <<>> or <<IAuthenticationAnalysis>>
  csrf,             \* <<>> or <<ICSRFAnalysis>>
  scored,           \* <<>> or <<[riskScore, recommendations]>>
  auditResult,      \* <<>> or <<the completed record built at line 180>>
  caught,           \* the error bound in the catch block, or NoError
  pending,          \* completion of try/catch waiting for finally
  returned,         \* <<>> or <<result>> the caller received
  thrown,           \* NoError or the error the call rejected with
  phase,            \* state of the run in the orchestrator's state machine
  extractorsRun,    \* extractors that have been invoked (history)
  extractorFailed,  \* extractors whose page reads rejected (history)
  insertCalls,      \* records handed to auditsCollection.insertOne (history)
  insertOk,         \* for each insertOne call, whether it resolved (history)
  seenUrls,         \* URLs for which a 'response' event has fired (history)
  navError,         \* the navigation failure, or NoError (history)
  trigger,          \* the first error raised after the target was resolved
  metadataReads,    \* number of response.securityDetails() calls (history)
  unitInput,        \* arguments of a direct call of one extractor or the scorer
  pageCalls,        \* browser, page and request methods invoked so far (history)
  cache,            \* cacheManager entry 'banks:all': <<>> or <<the cached list>>
  reqs,             \* HTTP requests of BankAuditController in flight or answered
  runs,             \* concurrent auditBank calls: each call's arguments and locals
  sessions,         \* the browser sessions puppeteer.launch has handed out
  lastLaunched      \* the session handed out most recently, 0 before the first

vars == << banks, audits, bankCode, verbose, pc, bank, browserOpen, launches,
           launchConfig, closeCalls, requestHeaders, responseHeaders,
           requestsSeen, requestsContinued, responsesSeen, response, page,
           ssl, headers, authentication, csrf, scored, auditResult, caught,
           pending, returned, thrown, phase, extractorsRun, extractorFailed,
           insertCalls, insertOk, seenUrls, navError, trigger, metadataReads,
           unitInput, pageCalls, cache, reqs, runs, sessions, lastLaunched >>

----------------------------------------------------------------------------
(* Bounds *)

MaxCodeLen == 2      \* longest bank code offered to auditBank
MaxResponses == 2    \* 'response' events during one navigation
MaxRequests == 1     \* intercepted requests during one navigation
MaxCreates == 2      \* POST /audit/banks requests
MaxReads == 2        \* GET /audit/banks requests
MaxRuns == 2         \* auditBank calls in flight at the same time

----------------------------------------------------------------------------
(* Strings *)

Undefined == "undefined"

Chars == {"a", "b", "A", "B"}

\* String.prototype.toUpperCase on one character
UpperChar(c) == CASE c = "a" -> "A" [] c = "b" -> "B" [] OTHER -> c

\* String.prototype.toUpperCase
ToUpperCase(s) == [i \in 1..Len(s) |-> UpperChar(s[i])]

\* the codes a caller may pass
Codes == UNION {[1..n -> Chars] : n \in 1..MaxCodeLen}

\* a URL is <<scheme, rest>>; url.startsWith('https://')
StartsWithHttps(url) == url[1] = "https://"

\* String.prototype.toLowerCase on the header names the model uses
ToLowerCase(n) ==
  CASE n = "Strict-Transport-Security" -> "strict-transport-security"
    [] n = "Content-Security-Policy" -> "content-security-policy"
    [] n = "X-Frame-Options" -> "x-frame-options"
    [] n = "X-Content-Type-Options" -> "x-content-type-options"
    [] n = "Referrer-Policy" -> "referrer-policy"
    [] n = "Permissions-Policy" -> "permissions-policy"
    [] OTHER -> n

\* String.prototype.includes on the input names and values the model uses,
\* for the patterns the code searches
Includes(name, pat) ==
  CASE name = "csrf" -> pat = "csrf"
    [] name = "auth_token" -> pat \in {"token", "_token"}
    [] name = "a2FAb9" -> pat = "2FA"
    [] OTHER -> FALSE

----------------------------------------------------------------------------
(* Errors: [type, message] *)

NoError == [type |-> "none", message |-> ""]
NotFoundException == [type |-> "NotFoundException", message |-> "Bank with code not found"]
LaunchError == [type |-> "Error", message |-> "Failed to launch the browser process"]
PageSetupError == [type |-> "Error", message |-> "Protocol error: Target closed"]
TimeoutError == [type |-> "TimeoutError", message |-> "Navigation timeout of 30000 ms exceeded"]
NavigationError == [type |-> "Error", message |-> "net::ERR_NAME_NOT_RESOLVED"]
NoResponseError == [type |-> "Error", message |-> "Failed to load page - no response received"]
ExtractorError == [type |-> "Error", message |-> "Execution context was destroyed"]
InsertError == [type |-> "MongoError", message |-> "insertOne failed"]
CloseError == [type |-> "Error", message |-> "Protocol error: Connection closed"]

----------------------------------------------------------------------------
(* JS objects used as string maps: a sequence of <<name, value>> pairs in  *)
(* insertion order, no name twice.                                         *)

HasKey(o, k) == \E i \in 1..Len(o) : o[i][1] = k

\* o[k]
Get(o, k) ==
  IF HasKey(o, k) THEN o[CHOOSE i \in 1..Len(o) : o[i][1] = k][2] ELSE Undefined

\* o[k] = v
SetKey(o, k, v) ==
  IF HasKey(o, k)
  THEN [i \in 1..Len(o) |-> IF o[i][1] = k THEN <<k, v>> ELSE o[i]]
  ELSE Append(o, <<k, v>>)

RECURSIVE ObjectAssign(_, _)
\* Object.assign(target, source)
ObjectAssign(target, source) ==
  IF source = <<>> THEN target
  ELSE ObjectAssign(SetKey(target, Head(source)[1], Head(source)[2]), Tail(source))

\* Object.fromEntries(Object.entries(h).map(([k, v]) => [k.toLowerCase(), v]))
LowerHeaders(h) ==
  ObjectAssign(<<>>, [i \in 1..Len(h) |-> <<ToLowerCase(h[i][1]), h[i][2]>>])

\* !!v for a string or undefined
Truthy(v) == v # Undefined /\ v # ""

----------------------------------------------------------------------------
(* The registry and the environment one navigation can show *)

BankA == [code |-> <<"A">>, name |-> "Banco A",
          loginUrl |-> <<"https://", "a.cl/login">>, active |-> TRUE]
BankB == [code |-> <<"B">>, name |-> "Banco B",
          loginUrl |-> <<"http://", "b.cl/login">>, active |-> TRUE]

\* the final URL of a redirected or normalised navigation, and a sub-resource
RedirectUrl(b) == <<b.loginUrl[1], "redirected">>
AssetUrl(b) == <<b.loginUrl[1], "asset.js">>
DocumentUrls(b) == {b.loginUrl, RedirectUrl(b)}
ResponseUrls(b) == DocumentUrls(b) \cup {AssetUrl(b)}

NoHeaders == <<>>
HstsCsp == << <<"strict-transport-security", "max-age=31536000">>,
              <<"content-security-policy", "default-src 'self'">> >>
AllSix == << <<"strict-transport-security", "max-age=31536000">>,
             <<"content-security-policy", "default-src 'self'">>,
             <<"x-frame-options", "DENY">>,
             <<"x-content-type-options", "nosniff">>,
             <<"referrer-policy", "no-referrer">>,
             <<"permissions-policy", "geolocation=()">> >>
\* response.headers() of the responses a navigation may produce
ResponseHeaderMaps == {NoHeaders, HstsCsp, AllSix}
\* request.headers() of an intercepted request
RequestHeaderMaps == {<< <<"user-agent", "Educational Security Research">> >>}

\* response.securityDetails() of the response to url: <<>> is null, which a
\* secure response shows when the details are stripped and any other always
SecurityDetails(url) ==
  IF StartsWithHttps(url)
  THEN {<<>>, <<[protocol |-> "TLS 1.3", issuer |-> "CA"]>>}
  ELSE {<<>>}

\* the inputs document.querySelector can meet: <<>> is a page without one
PageInputs ==
  {<<>>, <<[name |-> "q", value |-> "t1"]>>}
    \cup {<<[name |-> n, value |-> v]>> :
            n \in {"csrf", "auth_token"}, v \in {"", "t1", "a2FAb9"}}

CookieJars == {{[secure |-> TRUE, httpOnly |-> FALSE]}}

\* a loaded page as the extractors can observe it
Pages ==
  [passwordField : BOOLEAN, usernameField : BOOLEAN, mfaText : BOOLEAN,
   input : PageInputs, cookies : CookieJars]

----------------------------------------------------------------------------
(* The extractors and the scorer *)

\* how often analyzeSSL calls response.securityDetails(): the early return
\* for a URL that is not https comes before the call
SecurityDetailsReads(url) == IF ~StartsWithHttps(url) THEN 0 ELSE 1

\* analyzeSSL whose early return leaves the initial grade in place
analyzeSSLKeepsGrade(resp, url) ==
  IF ~StartsWithHttps(url)
  THEN [enabled |-> FALSE, grade |-> "A+",
        issues |-> <<"CRITICAL: Login page not served over HTTPS">>]
  ELSE LET securityDetails == resp.securityDetails IN
       [enabled |-> TRUE,
        protocol |-> IF securityDetails = <<>> THEN Undefined ELSE securityDetails[1].protocol,
        validCertificate |-> TRUE,
        issuer |-> IF securityDetails = <<>> THEN Undefined ELSE securityDetails[1].issuer,
        grade |-> IF securityDetails = <<>> THEN "C" ELSE "A+",
        issues |-> IF securityDetails = <<>>
                   THEN <<"Unable to retrieve SSL certificate details">> ELSE <<>>]

\* analyzeSSL that notes the missing certificate details without downgrading
analyzeSSLNoDowngrade(resp, url) ==
  IF ~StartsWithHttps(url)
  THEN [enabled |-> FALSE, grade |-> "F",
        issues |-> <<"CRITICAL: Login page not served over HTTPS">>]
  ELSE LET securityDetails == resp.securityDetails IN
       [enabled |-> TRUE,
        protocol |-> IF securityDetails = <<>> THEN Undefined ELSE securityDetails[1].protocol,
        validCertificate |-> TRUE,
        issuer |-> IF securityDetails = <<>> THEN Undefined ELSE securityDetails[1].issuer,
        grade |-> "A+",
        issues |-> IF securityDetails = <<>>
                   THEN <<"Unable to retrieve SSL certificate details">> ELSE <<>>]

\* analyzeSSL(response, url)
analyzeSSL(resp, url) ==
  IF ~StartsWithHttps(url)
  THEN [enabled |-> FALSE, grade |-> "F",
        issues |-> <<"CRITICAL: Login page not served over HTTPS">>]
  ELSE LET securityDetails == resp.securityDetails IN
       [enabled |-> TRUE,
        protocol |-> IF securityDetails = <<>> THEN Undefined ELSE securityDetails[1].protocol,
        validCertificate |-> TRUE,
        issuer |-> IF securityDetails = <<>> THEN Undefined ELSE securityDetails[1].issuer,
        grade |-> IF securityDetails = <<>> THEN "C" ELSE "A+",
        issues |-> IF securityDetails = <<>>
                   THEN <<"Unable to retrieve SSL certificate details">> ELSE <<>>]

\* HeaderScore with the weights of X-Frame-Options and Referrer-Policy swapped
HeaderScoreSwappedWeights(a) ==
  (IF a.strictTransportSecurity THEN 20 ELSE 0)
  + (IF a.contentSecurityPolicy THEN 25 ELSE 0)
  + (IF a.xFrameOptions THEN 10 ELSE 0)
  + (IF a.xContentTypeOptions THEN 15 ELSE 0)
  + (IF a.referrerPolicy THEN 15 ELSE 0)
  + (IF a.permissionsPolicy THEN 15 ELSE 0)

\* the weighted sum of analyzeSecurityHeaders
HeaderScore(a) ==
  (IF a.strictTransportSecurity THEN 20 ELSE 0)
  + (IF a.contentSecurityPolicy THEN 25 ELSE 0)
  + (IF a.xFrameOptions THEN 15 ELSE 0)
  + (IF a.xContentTypeOptions THEN 15 ELSE 0)
  + (IF a.referrerPolicy THEN 10 ELSE 0)
  + (IF a.permissionsPolicy THEN 15 ELSE 0)

\* analyzeSecurityHeaders(headers)
analyzeSecurityHeaders(h) ==
  LET lowerHeaders == LowerHeaders(h)
      analysis == [strictTransportSecurity |-> Truthy(Get(lowerHeaders, "strict-transport-security")),
                   contentSecurityPolicy |-> Truthy(Get(lowerHeaders, "content-security-policy")),
                   xFrameOptions |-> Truthy(Get(lowerHeaders, "x-frame-options")),
                   xContentTypeOptions |-> Truthy(Get(lowerHeaders, "x-content-type-options")),
                   referrerPolicy |-> Truthy(Get(lowerHeaders, "referrer-policy")),
                   permissionsPolicy |-> Truthy(Get(lowerHeaders, "permissions-policy")),
                   headers |-> lowerHeaders,
                   grade |-> "F"]
      score == HeaderScore(analysis)
  IN [analysis EXCEPT !.grade = IF score >= 90 THEN "A"
                                ELSE IF score >= 75 THEN "B"
                                ELSE IF score >= 60 THEN "C"
                                ELSE IF score >= 40 THEN "D"
                                ELSE "F"]

\* page.$('input[type="password"]') and the username selector: truthy or null
HasPasswordField(p) == p.passwordField
HasUsernameField(p) == p.usernameField

\* the keywords analyzeAuthentication searches the page content for
MfaKeywords ==
  {"MFA", "2FA", "autenticación de dos factores", "segundo factor", "token",
   "SMS", "código"}

\* the scan of page.content() restricted to the visible text of the page
ContentScanOfTextOnly(p) == p.mfaText

\* page.content(): the serialised document contains one of the MFA keywords;
\* the markup of an input, its name and value attributes, is part of it
ContentHasMfaKeyword(p) ==
  \/ p.mfaText
  \/ /\ p.input # <<>>
     /\ \E kw \in MfaKeywords :
          Includes(p.input[1].name, kw) \/ Includes(p.input[1].value, kw)

\* analyzeAuthentication that grades A on the MFA keyword alone
analyzeAuthenticationMfaAlone(p) ==
  LET methods == IF HasPasswordField(p) /\ HasUsernameField(p)
                 THEN <<"username-password">> ELSE <<>>
      mfaAvailable == ContentHasMfaKeyword(p)
  IN [methods |-> methods,
      mfaAvailable |-> mfaAvailable,
      mfaTypes |-> IF mfaAvailable THEN <<"Detected via page content analysis">> ELSE <<>>,
      passwordRequirements |-> <<>>,
      sessionManagement |-> [secureFlag |-> \E c \in p.cookies : c.secure,
                             httpOnlyFlag |-> \E c \in p.cookies : c.httpOnly],
      grade |-> IF mfaAvailable THEN "A"
                ELSE IF Len(methods) > 0 THEN "C" ELSE "F"]

\* analyzeAuthentication(page), when every page read resolves
analyzeAuthentication(p) ==
  LET methods == IF HasPasswordField(p) /\ HasUsernameField(p)
                 THEN <<"username-password">> ELSE <<>>
      mfaAvailable == ContentHasMfaKeyword(p)
  IN [methods |-> methods,
      mfaAvailable |-> mfaAvailable,
      mfaTypes |-> IF mfaAvailable THEN <<"Detected via page content analysis">> ELSE <<>>,
      passwordRequirements |-> <<>>,
      sessionManagement |-> [secureFlag |-> \E c \in p.cookies : c.secure,
                             httpOnlyFlag |-> \E c \in p.cookies : c.httpOnly],
      grade |-> IF Len(methods) > 0 /\ mfaAvailable THEN "A"
                ELSE IF Len(methods) > 0 THEN "C" ELSE "F"]

\* the CSRF selector reduced to input[name*="csrf"]
CsrfSelectorCsrfOnly(p) ==
  p.input # <<>> /\ Includes(p.input[1].name, "csrf")

\* the element the CSRF selector matches on the page, if any
CsrfSelectorMatches(p) ==
  p.input # <<>>
  /\ \E pat \in {"csrf", "token", "_token"} : Includes(p.input[1].name, pat)

\* page.$eval(selector, el => el.value).catch(() => null); evalRejects is
\* a rejection that happens although an element matches
EvalCsrfToken(p, evalRejects) ==
  IF CsrfSelectorMatches(p) /\ ~evalRejects THEN p.input[1].value ELSE Undefined

\* analyzeCSRF with `csrfToken !== ''` in place of `!!csrfToken`: the null of
\* a failed read counts as a token
analyzeCSRFNullAsPresent(csrfToken) ==
  LET tokenPresent == csrfToken # ""
      isProtected == tokenPresent
  IN [tokenPresent |-> tokenPresent,
      tokenType |-> IF tokenPresent THEN "hidden-field" ELSE Undefined,
      tokenValue |-> IF tokenPresent THEN "[PRESENT]" ELSE Undefined,
      isProtected |-> isProtected,
      grade |-> IF isProtected THEN "A" ELSE "F"]

\* analyzeCSRF(page), given the value read from the page (Undefined is null)
analyzeCSRF(csrfToken) ==
  LET tokenPresent == Truthy(csrfToken)
      isProtected == tokenPresent
  IN [tokenPresent |-> tokenPresent,
      tokenType |-> IF tokenPresent THEN "hidden-field" ELSE Undefined,
      tokenValue |-> IF tokenPresent THEN "[PRESENT]" ELSE Undefined,
      isProtected |-> isProtected,
      grade |-> IF isProtected THEN "A" ELSE "F"]

\* Penalise with the penalty added a second time
PenaliseTwice(acc, cond, n, text) ==
  IF cond THEN [riskScore |-> acc.riskScore + n + n,
                recommendations |-> Append(acc.recommendations, text)]
  ELSE acc

\* one `if (cond) { riskScore += n; recommendations.push(text) }`
Penalise(acc, cond, n, text) ==
  IF cond THEN [riskScore |-> acc.riskScore + n,
                recommendations |-> Append(acc.recommendations, text)]
  ELSE acc

\* calculateRiskScore with `if` in place of `else if`: a disabled TLS that
\* also lists issues is charged 40 and 10
calculateRiskScoreBothTls(s, h, a, c) ==
  LET r0 == [riskScore |-> 0, recommendations |-> <<>>]
      r1a == IF ~s.enabled
             THEN [riskScore |-> 40,
                   recommendations |-> <<"CRITICAL: Implement HTTPS for login page">>]
             ELSE r0
      r1 == IF Len(s.issues) > 0
            THEN [riskScore |-> r1a.riskScore + 10,
                  recommendations |-> Append(r1a.recommendations,
                                             "Review SSL/TLS configuration issues")]
            ELSE r1a
      r2 == IF ~h.strictTransportSecurity
            THEN [riskScore |-> r1.riskScore + 10,
                  recommendations |-> Append(r1.recommendations,
                      "Implement HSTS (Strict-Transport-Security header)")]
            ELSE r1
      r3 == IF ~h.contentSecurityPolicy
            THEN [riskScore |-> r2.riskScore + 10,
                  recommendations |-> Append(r2.recommendations,
                      "Implement Content Security Policy (CSP)")]
            ELSE r2
      r4 == IF ~h.xFrameOptions
            THEN [riskScore |-> r3.riskScore + 5,
                  recommendations |-> Append(r3.recommendations,
                      "Add X-Frame-Options header to prevent clickjacking")]
            ELSE r3
      r5 == IF ~a.mfaAvailable
            THEN [riskScore |-> r4.riskScore + 15,
                  recommendations |-> Append(r4.recommendations,
                      "Implement Multi-Factor Authentication (MFA/2FA)")]
            ELSE r4
      r6 == IF ~c.isProtected
            THEN [riskScore |-> r5.riskScore + 10,
                  recommendations |-> Append(r5.recommendations,
                      "Implement CSRF protection tokens")]
            ELSE r5
  IN IF Len(r6.recommendations) = 0
     THEN [r6 EXCEPT !.recommendations = <<"Excellent security posture!">>]
     ELSE r6

\* calculateRiskScore with the MFA and CSRF blocks in the other order
calculateRiskScoreCsrfFirst(s, h, a, c) ==
  LET r0 == [riskScore |-> 0, recommendations |-> <<>>]
      r1 == IF ~s.enabled
            THEN [riskScore |-> 40,
                  recommendations |-> <<"CRITICAL: Implement HTTPS for login page">>]
            ELSE IF Len(s.issues) > 0
            THEN [riskScore |-> 10,
                  recommendations |-> <<"Review SSL/TLS configuration issues">>]
            ELSE r0
      r2 == IF ~h.strictTransportSecurity
            THEN [riskScore |-> r1.riskScore + 10,
                  recommendations |-> Append(r1.recommendations,
                      "Implement HSTS (Strict-Transport-Security header)")]
            ELSE r1
      r3 == IF ~h.contentSecurityPolicy
            THEN [riskScore |-> r2.riskScore + 10,
                  recommendations |-> Append(r2.recommendations,
                      "Implement Content Security Policy (CSP)")]
            ELSE r2
      r4 == IF ~h.xFrameOptions
            THEN [riskScore |-> r3.riskScore + 5,
                  recommendations |-> Append(r3.recommendations,
                      "Add X-Frame-Options header to prevent clickjacking")]
            ELSE r3
      r5 == IF ~c.isProtected
            THEN [riskScore |-> r4.riskScore + 10,
                  recommendations |-> Append(r4.recommendations,
                      "Implement CSRF protection tokens")]
            ELSE r4
      r6 == IF ~a.mfaAvailable
            THEN [riskScore |-> r5.riskScore + 15,
                  recommendations |-> Append(r5.recommendations,
                      "Implement Multi-Factor Authentication (MFA/2FA)")]
            ELSE r5
  IN IF Len(r6.recommendations) = 0
     THEN [r6 EXCEPT !.recommendations = <<"Excellent security posture!">>]
     ELSE r6

\* calculateRiskScore that pushes the positive message whenever the CSRF
\* block added nothing, instead of when the list is empty
calculateRiskScoreEagerPraise(s, h, a, c) ==
  LET r0 == [riskScore |-> 0, recommendations |-> <<>>]
      r1 == IF ~s.enabled
            THEN [riskScore |-> 40,
                  recommendations |-> <<"CRITICAL: Implement HTTPS for login page">>]
            ELSE IF Len(s.issues) > 0
            THEN [riskScore |-> 10,
                  recommendations |-> <<"Review SSL/TLS configuration issues">>]
            ELSE r0
      r2 == IF ~h.strictTransportSecurity
            THEN [riskScore |-> r1.riskScore + 10,
                  recommendations |-> Append(r1.recommendations,
                      "Implement HSTS (Strict-Transport-Security header)")]
            ELSE r1
      r3 == IF ~h.contentSecurityPolicy
            THEN [riskScore |-> r2.riskScore + 10,
                  recommendations |-> Append(r2.recommendations,
                      "Implement Content Security Policy (CSP)")]
            ELSE r2
      r4 == IF ~h.xFrameOptions
            THEN [riskScore |-> r3.riskScore + 5,
                  recommendations |-> Append(r3.recommendations,
                      "Add X-Frame-Options header to prevent clickjacking")]
            ELSE r3
      r5 == IF ~a.mfaAvailable
            THEN [riskScore |-> r4.riskScore + 15,
                  recommendations |-> Append(r4.recommendations,
                      "Implement Multi-Factor Authentication (MFA/2FA)")]
            ELSE r4
  IN IF ~c.isProtected
     THEN [riskScore |-> r5.riskScore + 10,
           recommendations |-> Append(r5.recommendations,
               "Implement CSRF protection tokens")]
     ELSE [r5 EXCEPT !.recommendations = Append(r5.recommendations,
                                                "Excellent security posture!")]

\* calculateRiskScore(ssl, headers, authentication, csrf)
calculateRiskScore(s, h, a, c) ==
  LET r0 == [riskScore |-> 0, recommendations |-> <<>>]
      r1 == IF ~s.enabled
            THEN Penalise(r0, TRUE, 40, "CRITICAL: Implement HTTPS for login page")
            ELSE Penalise(r0, Len(s.issues) > 0, 10, "Review SSL/TLS configuration issues")
      r2 == Penalise(r1, ~h.strictTransportSecurity, 10,
                     "Implement HSTS (Strict-Transport-Security header)")
      r3 == Penalise(r2, ~h.contentSecurityPolicy, 10,
                     "Implement Content Security Policy (CSP)")
      r4 == Penalise(r3, ~h.xFrameOptions, 5,
                     "Add X-Frame-Options header to prevent clickjacking")
      r5 == Penalise(r4, ~a.mfaAvailable, 15,
                     "Implement Multi-Factor Authentication (MFA/2FA)")
      r6 == Penalise(r5, ~c.isProtected, 10, "Implement CSRF protection tokens")
  IN IF Len(r6.recommendations) = 0
     THEN [r6 EXCEPT !.recommendations = <<"Excellent security posture!">>]
     ELSE r6

\* the auditResult literal of auditBank
CompletedResult(b, s, h, a, c, r) ==
  [bankCode |-> b.code, bankName |-> b.name, loginUrl |-> b.loginUrl,
   ssl |-> s, headers |-> h, authentication |-> a, csrf |-> c,
   recommendations |-> r.recommendations, riskScore |-> r.riskScore,
   status |-> "completed"]

\* FailedResult with the caught error's message dropped from the record
FailedResultWithoutMessage(b, error) ==
  [bankCode |-> b.code, bankName |-> b.name, loginUrl |-> b.loginUrl,
   ssl |-> [enabled |-> FALSE, grade |-> "F", issues |-> <<"Audit failed">>],
   headers |-> [strictTransportSecurity |-> FALSE, contentSecurityPolicy |-> FALSE,
                xFrameOptions |-> FALSE, xContentTypeOptions |-> FALSE,
                referrerPolicy |-> FALSE, permissionsPolicy |-> FALSE,
                headers |-> <<>>, grade |-> "F"],
   authentication |-> [methods |-> <<>>, mfaAvailable |-> FALSE, mfaTypes |-> <<>>,
                       passwordRequirements |-> <<>>, sessionManagement |-> <<>>,
                       grade |-> "F"],
   csrf |-> [tokenPresent |-> FALSE, isProtected |-> FALSE, grade |-> "F"],
   recommendations |-> <<"Audit failed - please retry">>,
   riskScore |-> 100,
   status |-> "failed",
   error |-> "Audit failed"]

\* the failedResult literal of auditBank's catch block
FailedResult(b, error) ==
  [bankCode |-> b.code, bankName |-> b.name, loginUrl |-> b.loginUrl,
   ssl |-> [enabled |-> FALSE, grade |-> "F", issues |-> <<"Audit failed">>],
   headers |-> [strictTransportSecurity |-> FALSE, contentSecurityPolicy |-> FALSE,
                xFrameOptions |-> FALSE, xContentTypeOptions |-> FALSE,
                referrerPolicy |-> FALSE, permissionsPolicy |-> FALSE,
                headers |-> <<>>, grade |-> "F"],
   authentication |-> [methods |-> <<>>, mfaAvailable |-> FALSE, mfaTypes |-> <<>>,
                       passwordRequirements |-> <<>>, sessionManagement |-> <<>>,
                       grade |-> "F"],
   csrf |-> [tokenPresent |-> FALSE, isProtected |-> FALSE, grade |-> "F"],
   recommendations |-> <<"Audit failed - please retry">>,
   riskScore |-> 100,
   status |-> "failed",
   error |-> error.message]

\* the methods each step of auditBank invokes on the browser, the page, an
\* intercepted request or a response; a step that throws is recorded with the
\* calls it attempts
SetupCalls ==
  {"browser.newPage", "page.setUserAgent", "page.setRequestInterception(true)",
   "page.on"}

\* the 'request' observer with the request rewritten on its way out
RequestCallsWithOverrides == {"request.headers", "request.continue(overrides)"}

RequestCalls == {"request.headers", "request.continue()"}
ResponseCalls == {"response.url", "response.headers"}
GotoCalls == {"page.goto"}
AuthenticationCalls == {"page.$", "page.content", "page.cookies"}
CsrfCalls == {"page.$eval(el => el.value)"}

\* the options object of puppeteer.launch with no PUPPETEER_* variable set
LaunchOptions(verboseArg) ==
  [headless |-> FALSE, slowMo |-> 250, devtools |-> FALSE]

----------------------------------------------------------------------------
(* auditBank, one action per awaited step *)

Init ==
  /\ banks = {BankA, BankB}
  /\ audits = <<>>
  /\ bankCode \in Codes
  /\ verbose \in BOOLEAN
  /\ pc = "getBank"
  /\ bank = <<>>
  /\ browserOpen = FALSE
  /\ launches = 0
  /\ launchConfig = <<>>
  /\ closeCalls = 0
  /\ requestHeaders = <<>>
  /\ responseHeaders = <<>>
  /\ requestsSeen = 0
  /\ requestsContinued = 0
  /\ responsesSeen = 0
  /\ response = <<>>
  /\ page = <<>>
  /\ ssl = <<>>
  /\ headers = <<>>
  /\ authentication = <<>>
  /\ csrf = <<>>
  /\ scored = <<>>
  /\ auditResult = <<>>
  /\ caught = NoError
  /\ pending = "none"
  /\ returned = <<>>
  /\ thrown = NoError
  /\ phase = "Created"
  /\ extractorsRun = {}
  /\ extractorFailed = {}
  /\ insertCalls = <<>>
  /\ insertOk = <<>>
  /\ seenUrls = {}
  /\ navError = NoError
  /\ trigger = NoError
  /\ metadataReads = 0
  /\ unitInput = <<>>
  /\ pageCalls = {}
  /\ cache = <<>>
  /\ reqs = <<>>
  /\ runs = <<>>
  /\ sessions = <<>>
  /\ lastLaunched = 0

probeVars == << metadataReads, unitInput >>
callVars == << banks, bankCode, verbose >>
registryVars == << cache, reqs >>
fleetVars == << runs, sessions, lastLaunched >>
serverVars == << registryVars, fleetVars >>
browserVars == << browserOpen, launches, launchConfig, closeCalls >>
observerVars == << requestHeaders, responseHeaders, requestsSeen, requestsContinued,
                   responsesSeen, seenUrls >>
signalVars == << ssl, headers, authentication, csrf, scored, auditResult >>
sinkVars == << audits, insertCalls, insertOk >>
outcomeVars == << pending, returned, thrown >>

\* findOne with the filter left out: any registered bank is returned
FindOneUnfiltered(code) == banks

\* banksCollection.findOne({ code: code.toUpperCase() })
FindOneByCode(code) == {b \in banks : b.code = ToUpperCase(code)}

\* a throw inside the try block: control moves to the catch block
ThrowInTry(error) ==
  /\ caught' = error
  /\ trigger' = error
  /\ phase' = "Failed"
  /\ pc' = "catch"

\* const bank = await this.getBankByCode(bankCode)
GetBank ==
  /\ pc = "getBank"
  /\ LET found == FindOneByCode(bankCode) IN
       IF found = {}
       THEN /\ thrown' = NotFoundException
            /\ pc' = "done"
            /\ UNCHANGED bank
       ELSE /\ \E b \in found : bank' = <<b>>
            /\ pc' = "launch"
            /\ UNCHANGED thrown
  /\ UNCHANGED << pageCalls, probeVars, serverVars, callVars, browserVars, observerVars, response, page, signalVars,
                  sinkVars, caught, pending, returned, phase, extractorsRun,
                  extractorFailed, navError, trigger >>

\* const browser = await this.launchBrowser(verbose), outside the try block
LaunchBrowser ==
  /\ pc = "launch"
  /\ launches' = launches + 1
  /\ launchConfig' = <<LaunchOptions(verbose)>>
  /\ \/ /\ browserOpen' = TRUE
        /\ phase' = "SessionOpened"
        /\ pc' = "setup"
        /\ UNCHANGED << thrown, trigger >>
     \/ /\ thrown' = LaunchError
        /\ trigger' = LaunchError
        /\ pc' = "done"
        /\ UNCHANGED << browserOpen, phase >>
  /\ UNCHANGED << pageCalls, probeVars, serverVars, callVars, bank, closeCalls, observerVars, response, page,
                  signalVars, sinkVars, caught, pending, returned, extractorsRun,
                  extractorFailed, navError >>

\* newPage, setUserAgent, setRequestInterception and the two page.on calls
PageSetup ==
  /\ pc = "setup"
  /\ pageCalls' = pageCalls \cup SetupCalls
  /\ \/ /\ pc' = "goto"
        /\ UNCHANGED << caught, trigger, phase >>
     \/ ThrowInTry(PageSetupError)
  /\ UNCHANGED << probeVars, serverVars, callVars, bank, browserVars, observerVars, response, page,
                  signalVars, sinkVars, outcomeVars, extractorsRun,
                  extractorFailed, navError >>

\* page.on('request', ...): every intercepted request is accumulated and continued
OnRequest ==
  /\ pc = "goto"
  /\ requestsSeen < MaxRequests
  /\ \E h \in RequestHeaderMaps : requestHeaders' = ObjectAssign(requestHeaders, h)
  /\ requestsSeen' = requestsSeen + 1
  /\ requestsContinued' = requestsContinued + 1
  /\ pageCalls' = pageCalls \cup RequestCalls
  /\ UNCHANGED << probeVars, serverVars, callVars, pc, bank, browserVars, responseHeaders, responsesSeen,
                  seenUrls, response, page, signalVars, sinkVars, caught,
                  outcomeVars, phase, extractorsRun, extractorFailed, navError,
                  trigger >>

\* a 'response' observer without the URL test: every response feeds the map
OnResponseAnyUrl ==
  /\ pc = "goto"
  /\ responsesSeen < MaxResponses
  /\ \E u \in ResponseUrls(bank[1]), h \in ResponseHeaderMaps :
       /\ responseHeaders' = ObjectAssign(responseHeaders, h)
       /\ seenUrls' = seenUrls \cup {u}
  /\ responsesSeen' = responsesSeen + 1
  /\ pageCalls' = pageCalls \cup ResponseCalls
  /\ UNCHANGED << probeVars, serverVars, callVars, pc, bank, browserVars, requestHeaders, requestsSeen,
                  requestsContinued, response, page, signalVars, sinkVars, caught,
                  outcomeVars, phase, extractorsRun, extractorFailed, navError,
                  trigger >>

\* page.on('response', ...)
OnResponse ==
  /\ pc = "goto"
  /\ responsesSeen < MaxResponses
  /\ \E u \in ResponseUrls(bank[1]), h \in ResponseHeaderMaps :
       /\ responseHeaders' = IF u = bank[1].loginUrl
                             THEN ObjectAssign(responseHeaders, h)
                             ELSE responseHeaders
       /\ seenUrls' = seenUrls \cup {u}
  /\ responsesSeen' = responsesSeen + 1
  /\ pageCalls' = pageCalls \cup ResponseCalls
  /\ UNCHANGED << probeVars, serverVars, callVars, pc, bank, browserVars, requestHeaders, requestsSeen,
                  requestsContinued, response, page, signalVars, sinkVars, caught,
                  outcomeVars, phase, extractorsRun, extractorFailed, navError,
                  trigger >>

\* await page.goto(bank.loginUrl, ...) settles, and the `if (!response)` check
GotoReturn ==
  /\ pc = "goto"
  /\ pageCalls' = pageCalls \cup GotoCalls
  /\ \/ \E u \in DocumentUrls(bank[1]) \cap seenUrls :
          \E sd \in SecurityDetails(u) :
            /\ response' = <<[url |-> u, securityDetails |-> sd]>>
            /\ phase' = "Navigated"
            /\ pc' = "ssl"
            /\ UNCHANGED << caught, trigger, navError >>
     \/ \E e \in {TimeoutError, NavigationError, NoResponseError} :
          /\ navError' = e
          /\ ThrowInTry(e)
          /\ UNCHANGED response
  /\ UNCHANGED << probeVars, serverVars, callVars, bank, browserVars, observerVars, page, signalVars,
                  sinkVars, outcomeVars, extractorsRun, extractorFailed >>

\* const ssl = await this.analyzeSSL(response, bank.loginUrl)
AnalyzeSSL ==
  /\ pc = "ssl"
  /\ ssl' = <<analyzeSSL(response[1], bank[1].loginUrl)>>
  /\ metadataReads' = metadataReads + SecurityDetailsReads(bank[1].loginUrl)
  /\ extractorsRun' = extractorsRun \cup {"ssl"}
  /\ phase' = "Extracting"
  /\ pc' = "headers"
  /\ UNCHANGED << pageCalls, unitInput, serverVars, callVars, bank, browserVars, observerVars,
                  response, page, headers, authentication, csrf, scored, auditResult, sinkVars,
                  caught, outcomeVars, extractorFailed, navError, trigger >>

\* const headers = this.analyzeSecurityHeaders(responseHeaders)
AnalyzeSecurityHeaders ==
  /\ pc = "headers"
  /\ headers' = <<analyzeSecurityHeaders(responseHeaders)>>
  /\ extractorsRun' = extractorsRun \cup {"headers"}
  /\ pc' = "auth"
  /\ UNCHANGED << pageCalls, probeVars, serverVars, callVars, bank, browserVars, observerVars, response, page, ssl,
                  authentication, csrf, scored, auditResult, sinkVars, caught,
                  outcomeVars, phase, extractorFailed, navError, trigger >>

\* const authentication = await this.analyzeAuthentication(page): page.$,
\* page.content and page.cookies are awaited with no catch around them
AnalyzeAuthentication ==
  /\ pc = "auth"
  /\ pageCalls' = pageCalls \cup AuthenticationCalls
  /\ extractorsRun' = extractorsRun \cup {"auth"}
  /\ \/ \E p \in Pages :
          /\ page' = <<p>>
          /\ authentication' = <<analyzeAuthentication(p)>>
          /\ pc' = "csrf"
          /\ UNCHANGED << extractorFailed, caught, trigger, phase >>
     \/ /\ extractorFailed' = extractorFailed \cup {"auth"}
        /\ ThrowInTry(ExtractorError)
        /\ UNCHANGED << authentication, page >>
  /\ UNCHANGED << probeVars, serverVars, callVars, bank, browserVars, observerVars, response, ssl,
                  headers, csrf, scored, auditResult, sinkVars, outcomeVars,
                  navError >>

\* const csrf = await this.analyzeCSRF(page): a rejected $eval becomes null
AnalyzeCSRF ==
  /\ pc = "csrf"
  /\ pageCalls' = pageCalls \cup CsrfCalls
  /\ extractorsRun' = extractorsRun \cup {"csrf"}
  /\ \E evalRejects \in BOOLEAN :
       /\ csrf' = <<analyzeCSRF(EvalCsrfToken(page[1], evalRejects))>>
       /\ extractorFailed' = IF evalRejects \/ ~CsrfSelectorMatches(page[1])
                             THEN extractorFailed \cup {"csrf"}
                             ELSE extractorFailed
  /\ pc' = "score"
  /\ UNCHANGED << probeVars, serverVars, callVars, bank, browserVars, observerVars, response, page, ssl,
                  headers, authentication, scored, auditResult, sinkVars, caught,
                  outcomeVars, phase, navError, trigger >>

\* const { riskScore, recommendations } = this.calculateRiskScore(...)
CalculateRiskScore ==
  /\ pc = "score"
  /\ scored' = <<calculateRiskScore(ssl[1], headers[1], authentication[1], csrf[1])>>
  /\ phase' = "Scored"
  /\ pc' = "save"
  /\ UNCHANGED << pageCalls, probeVars, serverVars, callVars, bank, browserVars, observerVars, response, page, ssl,
                  headers, authentication, csrf, auditResult, sinkVars, caught,
                  outcomeVars, extractorsRun, extractorFailed, navError, trigger >>

\* the auditResult literal, await this.auditsCollection.insertOne(auditResult)
\* and `return auditResult`; a rejected insertOne stores nothing
SaveAuditResult ==
  /\ pc = "save"
  /\ LET result == CompletedResult(bank[1], ssl[1], headers[1], authentication[1],
                                   csrf[1], scored[1]) IN
       /\ auditResult' = <<result>>
       /\ insertCalls' = Append(insertCalls, result)
       /\ \/ /\ audits' = Append(audits, result)
             /\ insertOk' = Append(insertOk, TRUE)
             /\ pending' = "return"
             /\ phase' = "Completed"
             /\ pc' = "finally"
             /\ UNCHANGED << caught, trigger >>
          \/ /\ insertOk' = Append(insertOk, FALSE)
             /\ ThrowInTry(InsertError)
             /\ UNCHANGED << audits, pending >>
  /\ UNCHANGED << pageCalls, probeVars, serverVars, callVars, bank, browserVars, observerVars, response, page, ssl,
                  headers, authentication, csrf, scored, returned, thrown,
                  extractorsRun, extractorFailed, navError >>

\* CatchBlock that rethrows without handing a failed record to the sink
CatchBlockWithoutRecord ==
  /\ pc = "catch"
  /\ pending' = "throw"
  /\ pc' = "finally"
  /\ UNCHANGED << pageCalls, probeVars, serverVars, callVars, bank, browserVars, observerVars, response, page,
                  signalVars, sinkVars, caught, returned, thrown, phase,
                  extractorsRun, extractorFailed, navError, trigger >>

\* CatchBlock that returns the failed record instead of rethrowing the error
CatchBlockReturnsFailed ==
  /\ pc = "catch"
  /\ LET failedResult == FailedResult(bank[1], caught) IN
       /\ insertCalls' = Append(insertCalls, failedResult)
       /\ auditResult' = <<failedResult>>
       /\ \/ /\ audits' = Append(audits, failedResult)
             /\ insertOk' = Append(insertOk, TRUE)
             /\ pending' = "return"
             /\ UNCHANGED caught
          \/ /\ insertOk' = Append(insertOk, FALSE)
             /\ caught' = InsertError
             /\ pending' = "throw"
             /\ UNCHANGED audits
  /\ pc' = "finally"
  /\ UNCHANGED << pageCalls, probeVars, serverVars, callVars, bank, browserVars, observerVars, response, page,
                  ssl, headers, authentication, csrf, scored, returned, thrown,
                  phase, extractorsRun, extractorFailed, navError, trigger >>

\* catch (error): the failedResult literal, insertOne(failedResult), throw error;
\* a rejected insertOne replaces the error that is thrown on
CatchBlock ==
  /\ pc = "catch"
  /\ LET failedResult == FailedResult(bank[1], caught) IN
       /\ insertCalls' = Append(insertCalls, failedResult)
       /\ \/ /\ audits' = Append(audits, failedResult)
             /\ insertOk' = Append(insertOk, TRUE)
             /\ UNCHANGED caught
          \/ /\ insertOk' = Append(insertOk, FALSE)
             /\ caught' = InsertError
             /\ UNCHANGED audits
  /\ pending' = "throw"
  /\ pc' = "finally"
  /\ UNCHANGED << pageCalls, probeVars, serverVars, callVars, bank, browserVars, observerVars, response, page,
                  signalVars, returned, thrown, phase, extractorsRun,
                  extractorFailed, navError, trigger >>

\* browser.close() as the last statement of the try block instead of a
\* finally block: a run that throws leaves the browser open
CloseOnSuccessOnly ==
  /\ pc = "finally"
  /\ \/ /\ pending = "return"
        /\ closeCalls' = closeCalls + 1
        /\ browserOpen' = FALSE
        /\ \/ returned' = auditResult /\ UNCHANGED thrown
           \/ thrown' = CloseError /\ UNCHANGED returned
     \/ /\ pending = "throw"
        /\ thrown' = caught
        /\ UNCHANGED << closeCalls, browserOpen, returned >>
  /\ pc' = "done"
  /\ UNCHANGED << pageCalls, probeVars, serverVars, callVars, bank, launches, launchConfig, observerVars, response,
                  page, signalVars, sinkVars, caught, pending, phase,
                  extractorsRun, extractorFailed, navError, trigger >>

\* finally { await browser.close() }: a rejected close replaces the completion
Finally ==
  /\ pc = "finally"
  /\ closeCalls' = closeCalls + 1
  /\ browserOpen' = FALSE
  /\ \/ /\ pending = "return"
        /\ returned' = auditResult
        /\ UNCHANGED thrown
     \/ /\ pending = "throw"
        /\ thrown' = caught
        /\ UNCHANGED returned
     \/ /\ thrown' = CloseError
        /\ UNCHANGED returned
  /\ pc' = "done"
  /\ UNCHANGED << pageCalls, probeVars, serverVars, callVars, bank, launches, launchConfig, observerVars, response,
                  page, signalVars, sinkVars, caught, pending, phase,
                  extractorsRun, extractorFailed, navError, trigger >>

Next ==
  \/ GetBank
  \/ LaunchBrowser
  \/ PageSetup
  \/ OnRequest
  \/ OnResponse
  \/ GotoReturn
  \/ AnalyzeSSL
  \/ AnalyzeSecurityHeaders
  \/ AnalyzeAuthentication
  \/ AnalyzeCSRF
  \/ CalculateRiskScore
  \/ SaveAuditResult
  \/ CatchBlock
  \/ Finally

Spec == Init /\ [][Next]_vars

----------------------------------------------------------------------------
(* Direct calls of the extractors and of the scorer, as the unit tests of  *)
(* bank-audit.service.spec.ts make them: unitInput holds the arguments.    *)

HeaderNames == <<"strict-transport-security", "content-security-policy",
                 "x-frame-options", "x-content-type-options",
                 "referrer-policy", "permissions-policy">>
MixedCaseNames == <<"Strict-Transport-Security", "Content-Security-Policy",
                    "X-Frame-Options", "X-Content-Type-Options",
                    "Referrer-Policy", "Permissions-Policy">>

\* how one header may appear in a header map
HeaderForms == {"absent", "lower", "mixed", "empty"}

RECURSIVE BuildHeaders(_, _)
\* the header map in which header i appears in the form f[i], from header i on
BuildHeaders(f, i) ==
  IF i > Len(HeaderNames) THEN <<>>
  ELSE IF f[i] = "absent" THEN BuildHeaders(f, i + 1)
  ELSE << <<IF f[i] = "mixed" THEN MixedCaseNames[i] ELSE HeaderNames[i],
            IF f[i] = "empty" THEN "" ELSE "value">> >> \o BuildHeaders(f, i + 1)

\* the arguments of analyzeSecurityHeaders
UnitHeaderMaps == {BuildHeaders(f, 1) : f \in [1..Len(HeaderNames) -> HeaderForms]}

\* the arguments of analyzeSSL
UnitUrls == {<<"https://", "test.com">>, <<"http://", "test.com">>}
UnitResponses ==
  [securityDetails : {<<>>, <<[protocol |-> "TLS 1.3", issuer |-> "Let's Encrypt"]>>}]

\* the arguments of calculateRiskScore
UnitSslResults ==
  [enabled : BOOLEAN, grade : {"F"}, issues : {<<>>, <<"No HTTPS", "Expired cert">>}]
UnitHeaderResults ==
  [strictTransportSecurity : BOOLEAN, contentSecurityPolicy : BOOLEAN,
   xFrameOptions : BOOLEAN, xContentTypeOptions : BOOLEAN,
   referrerPolicy : BOOLEAN, permissionsPolicy : BOOLEAN,
   headers : {<<>>}, grade : {"F"}]
UnitAuthResults ==
  [methods : {<<>>, <<"username-password">>}, mfaAvailable : BOOLEAN,
   mfaTypes : {<<>>}, passwordRequirements : {<<>>}, sessionManagement : {<<>>},
   grade : {"F"}]
UnitCsrfResults ==
  [tokenPresent : BOOLEAN, isProtected : BOOLEAN, grade : {"F"}]

UnitInputs ==
  [op : {"analyzeSSL"}, response : UnitResponses, url : UnitUrls]
    \cup [op : {"analyzeSecurityHeaders"}, headers : UnitHeaderMaps]
    \cup [op : {"analyzeAuthentication"}, page : Pages]
    \cup [op : {"analyzeCSRF"}, page : Pages, evalRejects : BOOLEAN]
    \cup [op : {"calculateRiskScore"}, ssl : UnitSslResults,
          headers : UnitHeaderResults, authentication : UnitAuthResults,
          csrf : UnitCsrfResults]

InitUnits ==
  /\ banks = {BankA, BankB}
  /\ audits = <<>>
  /\ bankCode = <<"A">>
  /\ verbose = FALSE
  /\ pc = "unit"
  /\ bank = <<>>
  /\ browserOpen = FALSE
  /\ launches = 0
  /\ launchConfig = <<>>
  /\ closeCalls = 0
  /\ requestHeaders = <<>>
  /\ responseHeaders = <<>>
  /\ requestsSeen = 0
  /\ requestsContinued = 0
  /\ responsesSeen = 0
  /\ response = <<>>
  /\ page = <<>>
  /\ ssl = <<>>
  /\ headers = <<>>
  /\ authentication = <<>>
  /\ csrf = <<>>
  /\ scored = <<>>
  /\ auditResult = <<>>
  /\ caught = NoError
  /\ pending = "none"
  /\ returned = <<>>
  /\ thrown = NoError
  /\ phase = "Created"
  /\ extractorsRun = {}
  /\ extractorFailed = {}
  /\ insertCalls = <<>>
  /\ insertOk = <<>>
  /\ seenUrls = {}
  /\ navError = NoError
  /\ trigger = NoError
  /\ metadataReads = 0
  /\ unitInput \in UnitInputs
  /\ pageCalls = {}
  /\ cache = <<>>
  /\ reqs = <<>>
  /\ runs = <<>>
  /\ sessions = <<>>
  /\ lastLaunched = 0

\* what no direct call touches
unitFrame == << serverVars, callVars, bank, browserVars, observerVars, response, auditResult,
                sinkVars, caught, outcomeVars, phase, extractorsRun,
                extractorFailed, navError, trigger, unitInput >>

\* (service as any).analyzeSSL(mockResponse, url)
UnitAnalyzeSSL ==
  /\ pc = "unit"
  /\ unitInput.op = "analyzeSSL"
  /\ ssl' = <<analyzeSSL(unitInput.response, unitInput.url)>>
  /\ metadataReads' = metadataReads + SecurityDetailsReads(unitInput.url)
  /\ pc' = "unitDone"
  /\ UNCHANGED << unitFrame, page, headers, authentication, csrf, scored, pageCalls >>

\* (service as any).analyzeSecurityHeaders(headers)
UnitAnalyzeSecurityHeaders ==
  /\ pc = "unit"
  /\ unitInput.op = "analyzeSecurityHeaders"
  /\ headers' = <<analyzeSecurityHeaders(unitInput.headers)>>
  /\ pc' = "unitDone"
  /\ UNCHANGED << unitFrame, page, ssl, authentication, csrf, scored, metadataReads,
                  pageCalls >>

\* (service as any).analyzeAuthentication(mockPage), every page read resolving
UnitAnalyzeAuthentication ==
  /\ pc = "unit"
  /\ unitInput.op = "analyzeAuthentication"
  /\ page' = <<unitInput.page>>
  /\ authentication' = <<analyzeAuthentication(unitInput.page)>>
  /\ pc' = "unitDone"
  /\ pageCalls' = pageCalls \cup AuthenticationCalls
  /\ UNCHANGED << unitFrame, ssl, headers, csrf, scored, metadataReads >>

\* (service as any).analyzeCSRF(mockPage)
UnitAnalyzeCSRF ==
  /\ pc = "unit"
  /\ unitInput.op = "analyzeCSRF"
  /\ page' = <<unitInput.page>>
  /\ csrf' = <<analyzeCSRF(EvalCsrfToken(unitInput.page, unitInput.evalRejects))>>
  /\ pc' = "unitDone"
  /\ pageCalls' = pageCalls \cup CsrfCalls
  /\ UNCHANGED << unitFrame, ssl, headers, authentication, scored, metadataReads >>

\* (service as any).calculateRiskScore(ssl, headers, auth, csrf)
UnitCalculateRiskScore ==
  /\ pc = "unit"
  /\ unitInput.op = "calculateRiskScore"
  /\ scored' = <<calculateRiskScore(unitInput.ssl, unitInput.headers,
                                    unitInput.authentication, unitInput.csrf)>>
  /\ pc' = "unitDone"
  /\ UNCHANGED << unitFrame, page, ssl, headers, authentication, csrf, metadataReads,
                  pageCalls >>

NextUnits ==
  \/ UnitAnalyzeSSL
  \/ UnitAnalyzeSecurityHeaders
  \/ UnitAnalyzeAuthentication
  \/ UnitAnalyzeCSRF
  \/ UnitCalculateRiskScore

SpecUnits == InitUnits /\ [][NextUnits]_vars

----------------------------------------------------------------------------
(* The bank registry behind BankAuditController: POST /audit/banks and GET  *)
(* /audit/banks requests interleave at every await; banks is the collection *)
(* with its unique index on code, cache the cache-manager entry.            *)

Creators == 1..MaxCreates
Readers == (MaxCreates + 1)..(MaxCreates + MaxReads)

\* the bodies of POST /audit/banks: a one-letter code in either case, and the
\* optional active flag left out or false
CreateBankDtos ==
  [code : {c \in Codes : Len(c) = 1}, name : {"Banco Nuevo"},
   loginUrl : {<<"https://", "nuevo.cl/login">>}, active : {<<>>, <<FALSE>>}]

\* the record of createBank with the code stored as it was given
BankRecordAsGiven(dto) ==
  [code |-> dto.code, name |-> dto.name, loginUrl |-> dto.loginUrl,
   active |-> IF dto.active = <<>> THEN TRUE ELSE dto.active[1]]

\* { ...createBankDto, code: code.toUpperCase(), active: active ?? true };
\* createdAt and updatedAt are left out, as in the seeded banks
BankRecord(dto) ==
  [code |-> ToUpperCase(dto.code), name |-> dto.name, loginUrl |-> dto.loginUrl,
   active |-> IF dto.active = <<>> THEN TRUE ELSE dto.active[1]]

\* the unique index { code: 1 } rejects the insert
DuplicateKey(b) == \E x \in banks : x.code = b.code

\* the banks whose POST has been answered with 201
CreatedSoFar == {reqs[r].bank[1] : r \in {c \in Creators : reqs[c].pc = "created"}}

InitRegistry ==
  /\ banks = {BankA}
  /\ audits = <<>>
  /\ bankCode = <<"A">>
  /\ verbose = FALSE
  /\ pc = "serving"
  /\ bank = <<>>
  /\ browserOpen = FALSE
  /\ launches = 0
  /\ launchConfig = <<>>
  /\ closeCalls = 0
  /\ requestHeaders = <<>>
  /\ responseHeaders = <<>>
  /\ requestsSeen = 0
  /\ requestsContinued = 0
  /\ responsesSeen = 0
  /\ response = <<>>
  /\ page = <<>>
  /\ ssl = <<>>
  /\ headers = <<>>
  /\ authentication = <<>>
  /\ csrf = <<>>
  /\ scored = <<>>
  /\ auditResult = <<>>
  /\ caught = NoError
  /\ pending = "none"
  /\ returned = <<>>
  /\ thrown = NoError
  /\ phase = "Created"
  /\ extractorsRun = {}
  /\ extractorFailed = {}
  /\ insertCalls = <<>>
  /\ insertOk = <<>>
  /\ seenUrls = {}
  /\ navError = NoError
  /\ trigger = NoError
  /\ metadataReads = 0
  /\ unitInput = <<>>
  /\ pageCalls = {}
  /\ cache = <<>>
  /\ reqs = [r \in Creators \cup Readers |->
               [pc |-> "idle", dto |-> <<>>, bank |-> <<>>, after |-> {},
                found |-> <<>>, result |-> <<>>]]
  /\ runs = <<>>
  /\ sessions = <<>>
  /\ lastLaunched = 0

\* what no request of the registry touches
registryFrame == << audits, bankCode, verbose, pc, bank, browserVars, observerVars,
                    response, page, signalVars, caught, outcomeVars, phase,
                    extractorsRun, extractorFailed, insertCalls, insertOk,
                    navError, trigger, probeVars, pageCalls, fleetVars >>

\* POST /audit/banks: bankAuditService.createBank(dto), whose insertOne
\* rejects on a duplicate code; the rejection ends the request
CreateBankInsert(r) ==
  /\ reqs[r].pc = "idle"
  /\ \E dto \in CreateBankDtos :
       LET b == BankRecord(dto) IN
       IF DuplicateKey(b)
       THEN /\ reqs' = [reqs EXCEPT ![r].pc = "rejected", ![r].dto = <<dto>>,
                                     ![r].bank = <<b>>]
            /\ UNCHANGED banks
       ELSE /\ reqs' = [reqs EXCEPT ![r].pc = "invalidate", ![r].dto = <<dto>>,
                                     ![r].bank = <<b>>]
            /\ banks' = banks \cup {b}
  /\ UNCHANGED << cache, registryFrame >>

\* await this.cacheManager.del(CacheKeys.ALL_BANKS); return bank
CreateBankInvalidate(r) ==
  /\ reqs[r].pc = "invalidate"
  /\ cache' = <<>>
  /\ reqs' = [reqs EXCEPT ![r].pc = "created"]
  /\ UNCHANGED << banks, registryFrame >>

\* GET /audit/banks: cacheManager.get(cacheKey); `if (cached) return cached`
GetAllBanksLookup(r) ==
  /\ reqs[r].pc = "idle"
  /\ reqs' = [reqs EXCEPT
                ![r].after = CreatedSoFar,
                ![r].pc = IF cache # <<>> THEN "answered" ELSE "fetch",
                ![r].result = cache]
  /\ UNCHANGED << banks, cache, registryFrame >>

\* const banks = await this.bankAuditService.getAllBanks()
GetAllBanksFetch(r) ==
  /\ reqs[r].pc = "fetch"
  /\ reqs' = [reqs EXCEPT ![r].found = <<banks>>, ![r].pc = "store"]
  /\ UNCHANGED << banks, cache, registryFrame >>

\* await this.cacheManager.set(cacheKey, banks, CacheTTL.BANK_DATA); return banks
GetAllBanksStore(r) ==
  /\ reqs[r].pc = "store"
  /\ cache' = reqs[r].found
  /\ reqs' = [reqs EXCEPT ![r].result = reqs[r].found, ![r].pc = "answered"]
  /\ UNCHANGED << banks, registryFrame >>

\* the entry outlives CacheTTL.BANK_DATA and is dropped
CacheExpire ==
  /\ cache # <<>>
  /\ cache' = <<>>
  /\ UNCHANGED << banks, reqs, registryFrame >>

NextRegistry ==
  \/ \E r \in Creators : CreateBankInsert(r)
  \/ \E r \in Creators : CreateBankInvalidate(r)
  \/ \E r \in Readers : GetAllBanksLookup(r)
  \/ \E r \in Readers : GetAllBanksFetch(r)
  \/ \E r \in Readers : GetAllBanksStore(r)
  \/ CacheExpire

SpecRegistry == InitRegistry /\ [][NextRegistry]_vars

----------------------------------------------------------------------------
(* Several auditBank calls in flight at once.  runs[r] holds the arguments  *)
(* and the local constants of call r (bank, browser, responseHeaders, ...), *)
(* sessions[i] the browser that the i-th caller's puppeteer.launch started. *)
(* The calls share the collections only.  observed is what the target       *)
(* showed the call: the headers of the login response and the page.         *)

Runs == 1..MaxRuns

\* the codes the concurrent calls are made with
FleetCodes == {<<"a">>, <<"B">>}

\* the first call is made in verbose mode, the others are not
FleetVerbose(r) == r = 1

\* what a login page shows: both form fields, no MFA text, and a hidden input
\* named csrf holding one of two token values
FleetPages ==
  [passwordField : {TRUE}, usernameField : {TRUE}, mfaText : {FALSE},
   input : {<<[name |-> "csrf", value |-> v]>> : v \in {"t1", "a2FAb9"}},
   cookies : CookieJars]

\* the headers of the response whose URL is the loginUrl
FleetHeaderMaps == {NoHeaders, AllSix}

\* the HTTPResponse page.goto resolves with
FleetResponse(b) ==
  [url |-> b.loginUrl,
   securityDetails |-> IF StartsWithHttps(b.loginUrl)
                       THEN <<[protocol |-> "TLS 1.3", issuer |-> "CA"]>>
                       ELSE <<>>]

\* a browser handle kept in a field of the service: every call uses the
\* session that was launched last
BrowserOfService(r) == lastLaunched

\* the const `browser` of call r
BrowserOf(r) == runs[r].browser

\* the header map handed to analyzeSecurityHeaders, emptied in verbose mode
HeadersAnalysedUnlessVerbose(r) ==
  IF runs[r].verbose THEN <<>> ELSE runs[r].responseHeaders

\* the const `responseHeaders` of call r, handed to analyzeSecurityHeaders
HeadersAnalysed(r) == runs[r].responseHeaders

NoSession ==
  [launched |-> FALSE, open |-> FALSE, page |-> <<>>, closeCalls |-> 0,
   closedBy |-> {}, readBy |-> {}]

InitFleet ==
  /\ banks = {BankA, BankB}
  /\ audits = <<>>
  /\ bankCode = <<"A">>
  /\ verbose = FALSE
  /\ pc = "serving"
  /\ bank = <<>>
  /\ browserOpen = FALSE
  /\ launches = 0
  /\ launchConfig = <<>>
  /\ closeCalls = 0
  /\ requestHeaders = <<>>
  /\ responseHeaders = <<>>
  /\ requestsSeen = 0
  /\ requestsContinued = 0
  /\ responsesSeen = 0
  /\ response = <<>>
  /\ page = <<>>
  /\ ssl = <<>>
  /\ headers = <<>>
  /\ authentication = <<>>
  /\ csrf = <<>>
  /\ scored = <<>>
  /\ auditResult = <<>>
  /\ caught = NoError
  /\ pending = "none"
  /\ returned = <<>>
  /\ thrown = NoError
  /\ phase = "Created"
  /\ extractorsRun = {}
  /\ extractorFailed = {}
  /\ insertCalls = <<>>
  /\ insertOk = <<>>
  /\ seenUrls = {}
  /\ navError = NoError
  /\ trigger = NoError
  /\ metadataReads = 0
  /\ unitInput = <<>>
  /\ pageCalls = {}
  /\ cache = <<>>
  /\ reqs = <<>>
  /\ \E codes \in [Runs -> FleetCodes] :
       runs = [r \in Runs |->
                 [pc |-> "getBank", code |-> codes[r], verbose |-> FleetVerbose(r),
                  bank |-> <<>>, browser |-> 0, launchConfig |-> <<>>,
                  responseHeaders |-> <<>>, observed |-> <<>>, signals |-> <<>>,
                  result |-> <<>>, caught |-> NoError, returned |-> <<>>,
                  thrown |-> NoError]]
  /\ sessions = [i \in Runs |-> NoSession]
  /\ lastLaunched = 0

\* what no concurrent call touches
fleetFrame == << banks, bankCode, verbose, pc, bank, browserVars, observerVars,
                 response, page, signalVars, caught, outcomeVars, phase,
                 extractorsRun, extractorFailed, insertCalls, insertOk,
                 navError, trigger, probeVars, pageCalls, registryVars >>

\* const bank = await this.getBankByCode(bankCode)
RunGetBank(r) ==
  /\ runs[r].pc = "getBank"
  /\ \E b \in FindOneByCode(runs[r].code) :
       runs' = [runs EXCEPT ![r].bank = <<b>>, ![r].pc = "launch"]
  /\ UNCHANGED << audits, sessions, lastLaunched, fleetFrame >>

\* const browser = await this.launchBrowser(verbose): a new session each time
RunLaunch(r) ==
  /\ runs[r].pc = "launch"
  /\ sessions' = [sessions EXCEPT ![r].launched = TRUE, ![r].open = TRUE]
  /\ lastLaunched' = r
  /\ runs' = [runs EXCEPT ![r].browser = r,
                          ![r].launchConfig = <<LaunchOptions(runs[r].verbose)>>,
                          ![r].pc = "goto"]
  /\ UNCHANGED << audits, fleetFrame >>

\* browser.newPage(), the observers and page.goto(bank.loginUrl): the session
\* loads the page, the 'response' observer fills the call's responseHeaders;
\* or the navigation fails, or the session is gone
RunNavigate(r) ==
  /\ runs[r].pc = "goto"
  /\ LET i == BrowserOf(r) IN
     IF ~sessions[i].open
     THEN /\ runs' = [runs EXCEPT ![r].caught = PageSetupError, ![r].pc = "catch",
                                  ![r].observed = <<[headers |-> <<>>, page |-> <<>>]>>]
          /\ UNCHANGED sessions
     ELSE \/ \E h \in FleetHeaderMaps, p \in FleetPages :
               /\ sessions' = [sessions EXCEPT ![i].page = <<p>>]
               /\ runs' = [runs EXCEPT
                             ![r].responseHeaders = ObjectAssign(<<>>, h),
                             ![r].observed = <<[headers |-> h, page |-> <<p>>]>>,
                             ![r].pc = "extract"]
          \/ /\ runs' = [runs EXCEPT
                           ![r].caught = NavigationError, ![r].pc = "catch",
                           ![r].observed = <<[headers |-> <<>>, page |-> <<>>]>>]
             /\ UNCHANGED sessions
  /\ UNCHANGED << audits, lastLaunched, fleetFrame >>

\* the four extractor calls: analyzeAuthentication and analyzeCSRF read the
\* page of the session behind `browser`; a closed or empty session rejects
RunExtract(r) ==
  /\ runs[r].pc = "extract"
  /\ LET i == BrowserOf(r)
         b == runs[r].bank[1] IN
     IF sessions[i].open /\ sessions[i].page # <<>>
     THEN LET p == sessions[i].page[1] IN
          /\ runs' = [runs EXCEPT
               ![r].signals =
                  <<[ssl |-> analyzeSSL(FleetResponse(b), b.loginUrl),
                     headers |-> analyzeSecurityHeaders(HeadersAnalysed(r)),
                     authentication |-> analyzeAuthentication(p),
                     csrf |-> analyzeCSRF(EvalCsrfToken(p, FALSE))]>>,
               ![r].pc = "save"]
          /\ sessions' = [sessions EXCEPT ![i].readBy = @ \cup {r}]
     ELSE /\ runs' = [runs EXCEPT ![r].caught = ExtractorError, ![r].pc = "catch"]
          /\ UNCHANGED sessions
  /\ UNCHANGED << audits, lastLaunched, fleetFrame >>

\* calculateRiskScore, the auditResult literal, insertOne and `return`
RunSave(r) ==
  /\ runs[r].pc = "save"
  /\ LET g == runs[r].signals[1]
         result == CompletedResult(runs[r].bank[1], g.ssl, g.headers,
                                   g.authentication, g.csrf,
                                   calculateRiskScore(g.ssl, g.headers,
                                                      g.authentication, g.csrf)) IN
       /\ audits' = Append(audits, result)
       /\ runs' = [runs EXCEPT ![r].result = <<result>>, ![r].pc = "finally"]
  /\ UNCHANGED << sessions, lastLaunched, fleetFrame >>

\* catch (error): the failedResult literal, insertOne and `throw error`
RunCatch(r) ==
  /\ runs[r].pc = "catch"
  /\ LET failedResult == FailedResult(runs[r].bank[1], runs[r].caught) IN
       /\ audits' = Append(audits, failedResult)
       /\ runs' = [runs EXCEPT ![r].result = <<failedResult>>, ![r].pc = "finally"]
  /\ UNCHANGED << sessions, lastLaunched, fleetFrame >>

\* finally { await browser.close() }, then the call settles
RunFinally(r) ==
  /\ runs[r].pc = "finally"
  /\ LET i == BrowserOf(r) IN
       sessions' = [sessions EXCEPT ![i].open = FALSE,
                                    ![i].closeCalls = @ + 1,
                                    ![i].closedBy = @ \cup {r}]
  /\ runs' = [runs EXCEPT
                ![r].pc = "done",
                ![r].returned = IF runs[r].caught = NoError THEN runs[r].result ELSE <<>>,
                ![r].thrown = runs[r].caught]
  /\ UNCHANGED << audits, lastLaunched, fleetFrame >>

NextFleet ==
  \/ \E r \in Runs : RunGetBank(r)
  \/ \E r \in Runs : RunLaunch(r)
  \/ \E r \in Runs : RunNavigate(r)
  \/ \E r \in Runs : RunExtract(r)
  \/ \E r \in Runs : RunSave(r)
  \/ \E r \in Runs : RunCatch(r)
  \/ \E r \in Runs : RunFinally(r)

SpecFleet == InitFleet /\ [][NextFleet]_vars

----------------------------------------------------------------------------
(* Properties of one call of auditBank *)

Extractors == {"ssl", "headers", "auth", "csrf"}

\* the call has settled
Settled == pc = "done"

\* puppeteer.launch resolved: the run owns a browser session
SessionWasOpened == phase # "Created"

\* the sink rejected the last insertOne of the run
LastInsertRejected == Len(insertOk) > 0 /\ ~insertOk[Len(insertOk)]

\* neither the sink nor browser.close() failed during the run
SinkAndCloseHealthy == (\A i \in 1..Len(insertOk) : insertOk[i]) /\ thrown # CloseError

\* C1: whenever the browser session was opened, browser.close() has been
\* invoked exactly once by the time the call settles, on every exit path
\* (success, navigation failure, missing response, a throwing extractor, a
\* throwing insertOne), and it is never invoked twice or without a session.
CloseExactlyOnce ==
  /\ closeCalls <= 1
  /\ (Settled /\ SessionWasOpened) => (closeCalls = 1 /\ ~browserOpen)
  /\ ~SessionWasOpened => closeCalls = 0

\* C1 witness: both insertOne calls rejected, the session was still closed once
CloseAfterSinkFailure ==
  /\ Settled
  /\ insertOk = <<FALSE, FALSE>>
  /\ closeCalls = 1

\* C2: once the target is resolved, any later failure (launch, page setup,
\* navigation, missing response, extractor, scoring) leaves a persisted
\* AuditResult with status failed for that target when the call settles
\* (stated for runs in which the sink did not reject the run's last write).
FailureAlwaysRecorded ==
  (Settled /\ bank # <<>> /\ trigger # NoError /\ ~LastInsertRejected)
    => \E i \in 1..Len(audits) :
         audits[i].status = "failed" /\ audits[i].bankCode = bank[1].code

\* C3 as stated: a run that ends Completed or Failed has persisted exactly
\* one AuditResult, whose status matches the terminal state.
ExactlyOneRecordPerRun ==
  (Settled /\ phase \in {"Completed", "Failed"})
    => /\ Len(audits) = 1
       /\ audits[1].status = (IF phase = "Completed" THEN "completed" ELSE "failed")

\* C3 amended: a run that ends Completed or Failed has persisted at most one
\* AuditResult; it has persisted exactly one, with the status of the terminal
\* state, unless the sink rejected the last insertOne of the run, and then it
\* has persisted none.
OneRecordUnlessSinkRejects ==
  (Settled /\ phase \in {"Completed", "Failed"})
    => IF LastInsertRejected
       THEN Len(audits) = 0
       ELSE /\ Len(audits) = 1
            /\ audits[1].status = (IF phase = "Completed" THEN "completed" ELSE "failed")

\* C3 witness: the completed record was rejected, the failed one was stored
FailedRecordAfterRejectedCompleted ==
  /\ Settled
  /\ insertOk = <<FALSE, TRUE>>
  /\ phase = "Failed"
  /\ Len(audits) = 1

\* no registered target has the upper-cased code of the call
UnknownTarget == \A b \in banks : b.code # ToUpperCase(bankCode)

\* C4: a call whose code matches no registered target fails with
\* NotFoundException; no browser is launched, nothing is handed to the sink.
UnknownTargetNoSession ==
  UnknownTarget
    => /\ launches = 0
       /\ ~browserOpen
       /\ insertCalls = <<>>
       /\ audits = <<>>
       /\ Settled => (thrown = NotFoundException /\ returned = <<>>)

\* C4 witness: a settled call for a code that is not registered
UnknownTargetSettled == Settled /\ UnknownTarget /\ thrown = NotFoundException

\* C5: after a navigation failure (timeout, DNS/connection error, null
\* response) no extractor runs, the one record the run produces is failed
\* with riskScore 100 and the message of the navigation error, and the
\* session is closed.
NavigationFailureFailsRun ==
  navError # NoError
    => /\ extractorsRun = {}
       /\ pc \in {"finally", "done"}
            => /\ Len(insertCalls) = 1
               /\ insertCalls[1].status = "failed"
               /\ insertCalls[1].riskScore = 100
               /\ insertCalls[1].error = navError.message
       /\ Settled => closeCalls = 1

\* C5 witness: a settled run whose page.goto resolved with no response
NoResponseRunSettled ==
  /\ Settled
  /\ navError = NoResponseError
  /\ closeCalls = 1
  /\ audits # <<>>

\* C6 as stated, for the runs whose browser launched: the caller receives a
\* completed AuditResult, a failed AuditResult, or NotFoundException; after a
\* navigation timeout the caller receives a failed AuditResult with riskScore 100.
CallerReceivesResultOrNotFound ==
  (Settled /\ (SessionWasOpened \/ bank = <<>>))
    => /\ \/ /\ returned # <<>>
             /\ returned[1].status \in {"completed", "failed"}
             /\ thrown = NoError
          \/ /\ returned = <<>>
             /\ thrown = NotFoundException
             /\ launches = 0
       /\ navError = TimeoutError
            => /\ returned # <<>>
               /\ returned[1].status = "failed"
               /\ returned[1].riskScore = 100

\* C6 amended: every call ends in exactly one of two ways: the caller receives
\* an AuditResult, and its status is completed; or the call rejects with an
\* error.  NotFoundException is raised only before any audit attempt.  After a
\* navigation timeout the call rejects, a failed AuditResult with riskScore
\* 100 having been handed to the sink; no caller receives a failed AuditResult.
CallerReceivesCompletedOrError ==
  Settled
    => /\ (returned # <<>>) # (thrown # NoError)
       /\ returned # <<>> => (returned[1].status = "completed" /\ returned = auditResult)
       /\ thrown = NotFoundException => (launches = 0 /\ insertCalls = <<>>)
       /\ navError = TimeoutError
            => /\ returned = <<>>
               /\ thrown \in {TimeoutError, InsertError, CloseError}
               /\ insertCalls[1].status = "failed"
               /\ insertCalls[1].riskScore = 100

\* C6 witness: a navigation timeout re-raised to the caller after the failed
\* record was stored
TimeoutRethrown ==
  /\ Settled
  /\ navError = TimeoutError
  /\ thrown = TimeoutError
  /\ Len(audits) = 1

\* C7: on a transport/environment failure after the target was resolved, the
\* failed AuditResult is persisted before the error reaches the caller, and
\* the caller gets that triggering error (stated for runs in which neither
\* the sink nor close failed).
FailedRecordBeforeRethrow ==
  (Settled /\ SinkAndCloseHealthy
     /\ trigger \in {LaunchError, PageSetupError, TimeoutError, NavigationError,
                     NoResponseError})
    => /\ thrown = trigger
       /\ \E i \in 1..Len(audits) :
            audits[i].status = "failed" /\ audits[i].error = trigger.message

\* C8: once navigation succeeded, a failing extractor does not stop the
\* others and does not fail the run: all four extractors run and the caller
\* receives a completed result (stated for runs in which neither the sink
\* nor close failed).
ExtractorFailureIsolated ==
  (Settled /\ SinkAndCloseHealthy /\ response # <<>> /\ extractorFailed # {})
    => /\ extractorsRun = Extractors
       /\ phase = "Completed"
       /\ returned # <<>>
       /\ returned[1].status = "completed"
       /\ thrown = NoError

\* C9: when the sink rejects the completed record, the caller still receives
\* that completed record and no failed record is produced for the run
\* (stated for runs in which close did not fail).
SinkFailureNotSurfaced ==
  (Settled /\ thrown # CloseError /\ Len(insertOk) > 0 /\ ~insertOk[1]
     /\ insertCalls[1].status = "completed")
    => /\ returned = <<insertCalls[1]>>
       /\ \A i \in 1..Len(insertCalls) : insertCalls[i].status # "failed"

----------------------------------------------------------------------------
(* Properties of the scorer and the extractors, called directly *)

\* a direct call of op has returned
UnitReturned(op) == pc = "unitDone" /\ unitInput.op = op

\* the all-bad and the all-good arguments of calculateRiskScore
AllBadInput(i) ==
  /\ ~i.ssl.enabled
  /\ ~i.headers.strictTransportSecurity /\ ~i.headers.contentSecurityPolicy
  /\ ~i.headers.xFrameOptions /\ ~i.headers.xContentTypeOptions
  /\ ~i.headers.referrerPolicy /\ ~i.headers.permissionsPolicy
  /\ i.authentication.methods = <<>> /\ ~i.authentication.mfaAvailable
  /\ ~i.csrf.isProtected
AllGoodInput(i) ==
  /\ i.ssl.enabled /\ i.ssl.issues = <<>>
  /\ i.headers.strictTransportSecurity /\ i.headers.contentSecurityPolicy
  /\ i.headers.xFrameOptions /\ i.headers.xContentTypeOptions
  /\ i.headers.referrerPolicy /\ i.headers.permissionsPolicy
  /\ i.authentication.methods # <<>> /\ i.authentication.mfaAvailable
  /\ i.csrf.isProtected

\* the penalties of the additive model that apply to arguments i
TlsPenalty(i) == IF ~i.ssl.enabled THEN 40 ELSE IF i.ssl.issues # <<>> THEN 10 ELSE 0
PenaltySum(i) ==
  TlsPenalty(i)
  + (IF i.headers.strictTransportSecurity THEN 0 ELSE 10)
  + (IF i.headers.contentSecurityPolicy THEN 0 ELSE 10)
  + (IF i.headers.xFrameOptions THEN 0 ELSE 5)
  + (IF i.authentication.mfaAvailable THEN 0 ELSE 15)
  + (IF i.csrf.isProtected THEN 0 ELSE 10)

Elements(q) == {q[k] : k \in 1..Len(q)}

\* C12: the recommendations list is never empty; the positive message is
\* there exactly when no penalty applied (riskScore = 0), is then the only
\* element and never stands beside another recommendation; the all-good
\* input gives riskScore 0 and exactly that message.
PositiveMessageOnlyWhenClean ==
  UnitReturned("calculateRiskScore")
    => LET recs == scored[1].recommendations
           positive == "Excellent security posture!" IN
       /\ Len(recs) > 0
       /\ (positive \in Elements(recs)) <=> (scored[1].riskScore = 0)
       /\ (scored[1].riskScore = 0) <=> (PenaltySum(unitInput) = 0)
       /\ (positive \in Elements(recs)) => recs = <<positive>>
       /\ AllGoodInput(unitInput)
            => (scored[1].riskScore = 0 /\ recs = <<positive>>)

\* C12 witness: the all-good input
AllGoodIsExcellent ==
  /\ UnitReturned("calculateRiskScore")
  /\ AllGoodInput(unitInput)
  /\ scored[1] = [riskScore |-> 0, recommendations |-> <<"Excellent security posture!">>]

\* <<text>> when cond holds, nothing otherwise
When(cond, text) == IF cond THEN <<text>> ELSE <<>>

\* the recommendations of the applied penalties in the order TLS, HSTS, CSP,
\* X-Frame-Options, MFA, CSRF
PenaltiesInOrder(i) ==
  When(~i.ssl.enabled, "CRITICAL: Implement HTTPS for login page")
  \o When(i.ssl.enabled /\ i.ssl.issues # <<>>, "Review SSL/TLS configuration issues")
  \o When(~i.headers.strictTransportSecurity,
          "Implement HSTS (Strict-Transport-Security header)")
  \o When(~i.headers.contentSecurityPolicy, "Implement Content Security Policy (CSP)")
  \o When(~i.headers.xFrameOptions,
          "Add X-Frame-Options header to prevent clickjacking")
  \o When(~i.authentication.mfaAvailable,
          "Implement Multi-Factor Authentication (MFA/2FA)")
  \o When(~i.csrf.isProtected, "Implement CSRF protection tokens")

\* C13: the recommendations keep the evaluation order TLS, HSTS, CSP,
\* X-Frame-Options, MFA, CSRF, one per applied penalty, and with TLS
\* disabled the first recommendation is the HTTPS one.
RecommendationsInEvaluationOrder ==
  UnitReturned("calculateRiskScore")
    => LET recs == scored[1].recommendations IN
       /\ PenaltiesInOrder(unitInput) # <<>> => recs = PenaltiesInOrder(unitInput)
       /\ ~unitInput.ssl.enabled => recs[1] = "CRITICAL: Implement HTTPS for login page"

\* C13 witness: every penalty applied, six recommendations with MFA before CSRF
SixRecommendationsInOrder ==
  /\ UnitReturned("calculateRiskScore")
  /\ Len(scored[1].recommendations) = 6
  /\ scored[1].recommendations[5] = "Implement Multi-Factor Authentication (MFA/2FA)"
  /\ scored[1].recommendations[6] = "Implement CSRF protection tokens"

\* every AuditResult the run has built, handed to the sink, stored or returned
AuditResultsOfRun ==
  {insertCalls[i] : i \in 1..Len(insertCalls)}
    \cup {audits[i] : i \in 1..Len(audits)}
    \cup {auditResult[i] : i \in 1..Len(auditResult)}
    \cup {returned[i] : i \in 1..Len(returned)}

\* C14: every AuditResult that a run produces, completed or failed, has an
\* integer riskScore in 0..100 (and so has the score the scorer returned).
RiskScoreInRange ==
  /\ \A r \in AuditResultsOfRun : r.riskScore \in 0..100
  /\ \A k \in 1..Len(scored) : scored[k].riskScore \in 0..100

\* C14 witness: the sink was handed a completed result with every penalty
\* applied (90) and then the failed result (100)
WorstCompletedThenFailed ==
  /\ Len(insertCalls) = 2
  /\ insertCalls[1].status = "completed" /\ insertCalls[1].riskScore = 90
  /\ insertCalls[2].status = "failed" /\ insertCalls[2].riskScore = 100

\* the point values of the six headers, in the order of HeaderNames
HeaderWeights == <<20, 25, 15, 15, 10, 15>>

\* the six flags of a HeaderResult, in the order of HeaderNames
FlagsOf(r) ==
  <<r.strictTransportSecurity, r.contentSecurityPolicy, r.xFrameOptions,
    r.xContentTypeOptions, r.referrerPolicy, r.permissionsPolicy>>

RECURSIVE WeightedSum(_, _)
\* the sum of the weights of the flags set, from flag i on
WeightedSum(flags, i) ==
  IF i > Len(flags) THEN 0
  ELSE (IF flags[i] THEN HeaderWeights[i] ELSE 0) + WeightedSum(flags, i + 1)

\* the grade the thresholds give a sum
GradeOfSum(n) ==
  IF n >= 90 THEN "A" ELSE IF n >= 75 THEN "B" ELSE IF n >= 60 THEN "C"
  ELSE IF n >= 40 THEN "D" ELSE "F"

\* the header map carries the named header, in any case, with a value
HeaderSent(h, name) ==
  \E k \in 1..Len(h) : ToLowerCase(h[k][1]) = name /\ h[k][2] # ""

TlsResultsOfRun ==
  {ssl[k] : k \in 1..Len(ssl)} \cup {r.ssl : r \in AuditResultsOfRun}

\* C16: in every TlsResult that appears in an AuditResult, from analyzeSSL or
\* from the failed-run default, enabled = false implies grade = F.
DisabledTlsIsGradeF ==
  \A t \in TlsResultsOfRun : ~t.enabled => t.grade = "F"

\* C16 witness: a completed result of analyzeSSL on the http login URL and the
\* failed default were both handed to the sink, both disabled
DisabledTlsCompletedAndFailed ==
  /\ Len(insertCalls) = 2
  /\ insertCalls[1].status = "completed" /\ ~insertCalls[1].ssl.enabled
  /\ insertCalls[1].ssl.issues = <<"CRITICAL: Login page not served over HTTPS">>
  /\ insertCalls[2].status = "failed" /\ ~insertCalls[2].ssl.enabled

\* C17: the decision table of analyzeSSL(response, url). Not the secure
\* scheme: enabled=false, grade F, an issue recorded, and the response's
\* security metadata never read. Secure with metadata: enabled=true, grade A+,
\* no issues. Secure without metadata: enabled=true, grade C, with the issue
\* that certificate details could not be retrieved.
SslDecisionTable ==
  UnitReturned("analyzeSSL")
    => LET r == ssl[1]
           secure == unitInput.url[1] = "https://"
           metadata == unitInput.response.securityDetails
       IN /\ ~secure => /\ ~r.enabled /\ r.grade = "F" /\ Len(r.issues) > 0
                        /\ metadataReads = 0
          /\ secure /\ metadata # <<>>
               => r.enabled /\ r.grade = "A+" /\ r.issues = <<>>
          /\ secure /\ metadata = <<>>
               => /\ r.enabled /\ r.grade = "C"
                  /\ r.issues = <<"Unable to retrieve SSL certificate details">>

\* C17 witness: an http URL with a response that carries metadata, which was
\* not read
InsecureUrlShortCircuits ==
  /\ UnitReturned("analyzeSSL")
  /\ unitInput.url[1] = "http://"
  /\ unitInput.response.securityDetails # <<>>
  /\ metadataReads = 0
  /\ ~ssl[1].enabled /\ ssl[1].grade = "F"

\* C18: analyzeAuthentication records 'username-password' exactly when both
\* a password input and a username-like input are found; it grades A exactly
\* when methods is non-empty and mfaAvailable, C exactly when methods is
\* non-empty and not mfaAvailable, and F whenever methods is empty.
AuthenticationGrading ==
  UnitReturned("analyzeAuthentication")
    => LET r == authentication[1]
           both == unitInput.page.passwordField /\ unitInput.page.usernameField
       IN /\ r.methods = IF both THEN <<"username-password">> ELSE <<>>
          /\ r.grade = "A" <=> (r.methods # <<>> /\ r.mfaAvailable)
          /\ r.grade = "C" <=> (r.methods # <<>> /\ ~r.mfaAvailable)
          /\ r.methods = <<>> => r.grade = "F"

\* C18 witness: a password input without a username input, an MFA keyword in
\* the content, graded F
MfaKeywordWithoutMethodIsF ==
  /\ UnitReturned("analyzeAuthentication")
  /\ unitInput.page.passwordField /\ ~unitInput.page.usernameField
  /\ authentication[1].methods = <<>>
  /\ authentication[1].mfaAvailable
  /\ authentication[1].grade = "F"

\* every CsrfResult the run has produced
CsrfResultsOfRun ==
  {csrf[k] : k \in 1..Len(csrf)} \cup {r.csrf : r \in AuditResultsOfRun}

\* C19: when the read of the CSRF token fails (no element, or any extraction
\* error) analyzeCSRF returns tokenPresent=false, protected=false, grade F and
\* the run goes on to scoring with nothing thrown; in every CsrfResult
\* protected equals tokenPresent and the grade is A exactly when protected,
\* otherwise F.
CsrfReadFailureIsUnprotected ==
  /\ \A c \in CsrfResultsOfRun :
       /\ c.isProtected = c.tokenPresent
       /\ c.grade = IF c.isProtected THEN "A" ELSE "F"
  /\ (pc = "score" /\ "csrf" \in extractorFailed)
       => /\ ~csrf[1].tokenPresent /\ ~csrf[1].isProtected /\ csrf[1].grade = "F"
          /\ caught = NoError /\ thrown = NoError /\ phase # "Failed"

\* C19 witness: an input named csrf with a value is on the page, the read
\* rejected, and the run is about to score an unprotected page
CsrfReadRejectedThenScoring ==
  /\ pc = "score" /\ "csrf" \in extractorFailed
  /\ page[1].input = <<[name |-> "csrf", value |-> "t1"]>>
  /\ csrf[1].grade = "F"

\* the page has an input whose name carries a CSRF/token naming pattern
NamedLikeToken(p) ==
  p.input # <<>> /\ p.input[1].name \in {"csrf", "auth_token"}

\* analyzeCSRF reported the token as found
ReportedFound(c) == c.tokenPresent /\ c.isProtected /\ c.grade = "A"

\* C20 as stated: whenever the page contains an input whose name contains a
\* CSRF/token naming pattern (and the read resolves), analyzeCSRF reports
\* tokenPresent=true, protected=true, grade=A.
NamedInputAlwaysFound ==
  (UnitReturned("analyzeCSRF") /\ NamedLikeToken(unitInput.page)
     /\ ~unitInput.evalRejects)
    => ReportedFound(csrf[1])

\* C20: with an input whose name contains a CSRF/token naming pattern on the
\* page, analyzeCSRF reports tokenPresent=true, protected=true, grade=A
\* exactly when the read resolves and the input's value is non-empty;
\* an empty value is reported as tokenPresent=false, protected=false, grade F.
NamedInputFoundIffValueRead ==
  (UnitReturned("analyzeCSRF") /\ NamedLikeToken(unitInput.page))
    => LET valueRead == ~unitInput.evalRejects /\ unitInput.page.input[1].value # ""
       IN /\ valueRead => ReportedFound(csrf[1])
          /\ ~valueRead => /\ ~csrf[1].tokenPresent /\ ~csrf[1].isProtected
                           /\ csrf[1].grade = "F"

\* C20 witness: an input named auth_token with a value, read and reported found
TokenInputWithValueFound ==
  /\ UnitReturned("analyzeCSRF")
  /\ unitInput.page.input = <<[name |-> "auth_token", value |-> "t1"]>>
  /\ ~unitInput.evalRejects
  /\ ReportedFound(csrf[1])

\* the methods that act on the target: typing, clicking, submitting, and
\* aborting, answering or rewriting an intercepted request
InteractingCalls ==
  {"page.type", "page.click", "page.tap", "page.focus", "page.select",
   "keyboard.type", "keyboard.press", "mouse.click", "elementHandle.type",
   "elementHandle.click", "elementHandle.press", "form.submit",
   "request.abort", "request.respond", "request.continue(overrides)"}

\* C22: the audit only reads from the target page: no step of auditBank or of
\* an extractor types, clicks or submits, and every intercepted request is
\* continued, unmodified, never aborted or rewritten.
AuditOnlyReads ==
  /\ pageCalls \cap InteractingCalls = {}
  /\ requestsContinued = requestsSeen
  /\ requestsSeen > 0 => "request.continue()" \in pageCalls

\* C22 witness: a completed run that intercepted a request and queried the DOM
\* in both page extractors
CompletedRunOnlyRead ==
  /\ Settled /\ phase = "Completed"
  /\ requestsSeen > 0 /\ requestsContinued = requestsSeen
  /\ AuthenticationCalls \cup CsrfCalls \subseteq pageCalls

\* the transitions of the run's state machine that the description allows
PhaseChain ==
  {<<"Created", "SessionOpened">>, <<"SessionOpened", "Navigated">>,
   <<"Navigated", "Extracting">>, <<"Extracting", "Scored">>,
   <<"Scored", "Completed">>}
PhaseFailure == {"SessionOpened", "Navigated", "Extracting"} \X {"Failed"}

\* what holds in every state of an ordered run
PhaseOrderInState ==
  /\ extractorsRun # {} => response # <<>>
  /\ scored # <<>> => extractorsRun = Extractors
  /\ \A i \in 1..Len(insertCalls) :
       insertCalls[i].status = "completed" => scored # <<>>
  /\ phase = "Completed" => \A i \in 1..Len(insertCalls) : insertCalls[i].status = "completed"

\* C25: a run moves through Created, SessionOpened, Navigated, Extracting,
\* Scored, Completed in that order without skipping or revisiting a state; no
\* extractor runs before navigation returned a response, scoring starts after
\* all four extractors, the completed record is persisted after scoring;
\* Failed is entered only from SessionOpened, Navigated or Extracting, and
\* Completed and Failed are terminal and mutually exclusive.
PhasesInOrder ==
  /\ []PhaseOrderInState
  /\ [][phase' # phase => <<phase, phase'>> \in PhaseChain \cup PhaseFailure]_vars

\* the same order with the one transition the code adds: Scored to Failed,
\* when insertOne(auditResult) rejects
PhasesInOrderOrSinkFailure ==
  /\ []PhaseOrderInState
  /\ [][phase' # phase => <<phase, phase'>> \in PhaseChain \cup PhaseFailure
                                               \cup {<<"Scored", "Failed">>}]_vars

\* C26: closing the session never throws: when browser.close() fails, the
\* outcome of the run is unchanged; a completed run still returns its
\* completed result and a failed run still raises the error it caught, never
\* the close error.
CloseFailureKeepsOutcome ==
  (Settled /\ SessionWasOpened)
    => /\ thrown # CloseError
       /\ pending = "return" => returned = auditResult /\ thrown = NoError
       /\ pending = "throw" => thrown = caught /\ returned = <<>>

\* no 'response' event has carried exactly the target's loginUrl
LoginUrlNeverAnswered == bank # <<>> /\ bank[1].loginUrl \notin seenUrls

\* C29: only responses whose URL equals the target's loginUrl contribute to
\* the header map the header inspector analyses; a response with any other
\* URL leaves the map unchanged, so when no response has exactly the loginUrl
\* a completed audit reports all six header flags false and header grade F.
OnlyLoginUrlFeedsHeaders ==
  /\ [](LoginUrlNeverAnswered
          => /\ responseHeaders = <<>>
             /\ \A k \in 1..Len(headers) :
                  /\ FlagsOf(headers[k]) = <<FALSE, FALSE, FALSE, FALSE, FALSE, FALSE>>
                  /\ headers[k].grade = "F")
  /\ [][(\E u \in seenUrls' \ seenUrls : u # bank[1].loginUrl)
          => responseHeaders' = responseHeaders]_vars

\* C29 witness: a completed audit whose only responses came from the URL the
\* login page redirected to, graded F on headers
RedirectedAuditGradesHeadersF ==
  /\ Settled /\ phase = "Completed"
  /\ seenUrls = {RedirectUrl(bank[1])}
  /\ responsesSeen = MaxResponses
  /\ returned[1].headers.grade = "F"

\* C30: in every completed audit in which the CSRF token was found on an
\* input whose name contains 'token', authentication.mfaAvailable is true,
\* since the scanned page content then contains 'token', and the audit does
\* not receive the MFA penalty.
TokenNamedInputCountsAsMfa ==
  \A r \in AuditResultsOfRun :
    (/\ r.status = "completed"
     /\ r.csrf.tokenPresent
     /\ Includes(page[1].input[1].name, "token"))
      => /\ r.authentication.mfaAvailable
         /\ \A k \in 1..Len(r.recommendations) :
              r.recommendations[k] # "Implement Multi-Factor Authentication (MFA/2FA)"

\* C30 witness: a completed audit of a page with no MFA text and an input
\* named auth_token holding a value: MFA is reported, with no MFA penalty
TokenInputReportedAsMfa ==
  /\ Settled /\ phase = "Completed"
  /\ ~page[1].mfaText
  /\ page[1].input = <<[name |-> "auth_token", value |-> "t1"]>>
  /\ returned[1].csrf.tokenPresent
  /\ returned[1].authentication.mfaAvailable

----------------------------------------------------------------------------
(* Properties of the bank registry *)

\* C24: after any sequence of createBank calls every stored target has an
\* upper-case code and no two stored targets share a code; a createBank whose
\* upper-cased code is already stored fails and leaves the stored targets
\* unchanged.
CodesUpperCaseAndUnique ==
  /\ [](/\ \A b \in banks : \A k \in 1..Len(b.code) : b.code[k] \in {"A", "B"}
        /\ \A b1, b2 \in banks : b1.code = b2.code => b1 = b2)
  /\ [][\A r \in Creators :
          (reqs[r].pc = "idle" /\ reqs'[r].pc # "idle"
             /\ \E x \in banks : x.code = ToUpperCase(reqs'[r].dto[1].code))
            => reqs'[r].pc = "rejected" /\ banks' = banks]_vars

\* C24 witness: one POST stored bank B, a second POST with the code of a
\* stored bank and a different active flag was rejected
DuplicateCodeRejected ==
  \E c1, c2 \in Creators :
    /\ reqs[c1].pc = "created" /\ reqs[c1].dto[1].code = <<"b">>
    /\ reqs[c2].pc = "rejected" /\ reqs[c2].dto[1].code = <<"B">>
    /\ reqs[c2].bank[1] \notin banks
    /\ Cardinality(banks) = 2

\* C27: creating a bank invalidates the cached bank list: once createBank has
\* completed, every later getAllBanks request returns a list that contains
\* the new bank, under every interleaving of getAllBanks and createBank.
LaterReadsSeeCreatedBank ==
  \A g \in Readers :
    reqs[g].pc = "answered" => reqs[g].after \subseteq reqs[g].result[1]

----------------------------------------------------------------------------
(* Properties of concurrent calls of auditBank *)

\* call r has settled
RunSettled(r) == runs[r].pc = "done"

\* the AuditResult call r produces when it runs alone against the same
\* target showing the same headers and page
ResultAlone(r) ==
  LET b == runs[r].bank[1]
      seen == runs[r].observed[1] IN
  IF seen.page = <<>>
  THEN FailedResult(b, NavigationError)
  ELSE LET s == analyzeSSL(FleetResponse(b), b.loginUrl)
           h == analyzeSecurityHeaders(seen.headers)
           a == analyzeAuthentication(seen.page[1])
           c == analyzeCSRF(EvalCsrfToken(seen.page[1], FALSE))
       IN CompletedResult(b, s, h, a, c, calculateRiskScore(s, h, a, c))

VerboseDoesNotInterfere ==
  \A r1, r2 \in Runs :
    (/\ RunSettled(r1) /\ RunSettled(r2)
     /\ runs[r1].verbose /\ ~runs[r2].verbose
     /\ runs[r1].bank = runs[r2].bank
     /\ runs[r1].observed = runs[r2].observed)
      => /\ runs[r1].result = runs[r2].result
         /\ runs[r1].returned = runs[r2].returned
         /\ runs[r1].thrown = runs[r2].thrown

\* C21 witness: a verbose and a plain audit of bank A that saw all six headers
\* and the same page, both completed
VerboseAndPlainAuditsAgree ==
  /\ RunSettled(1) /\ RunSettled(2)
  /\ runs[1].verbose /\ ~runs[2].verbose
  /\ runs[1].bank = <<BankA>> /\ runs[2].bank = <<BankA>>
  /\ runs[1].observed = runs[2].observed
  /\ runs[1].observed[1].headers = AllSix
  /\ runs[1].returned # <<>> /\ runs[1].returned = runs[2].returned

\* the two pages differ in nothing but the non-empty value of the token input
DifferOnlyInTokenValue(p, q) ==
  /\ p # <<>> /\ q # <<>>
  /\ p[1].input[1].value # "" /\ q[1].input[1].value # ""
  /\ [p[1] EXCEPT !.input = <<>>] = [q[1] EXCEPT !.input = <<>>]
  /\ p[1].input[1].name = q[1].input[1].name

\* C28: the value of a detected CSRF token never appears in the CsrfResult or
\* in the persisted AuditResult, which carries the marker '[PRESENT]' or no
\* value, so two pages that differ only in a non-empty token value produce
\* identical AuditResults.
TokenValueNeverShows ==
  /\ \A k \in 1..Len(audits) :
       audits[k].status = "completed"
         => audits[k].csrf.tokenValue \in {"[PRESENT]", Undefined}
  /\ \A r1, r2 \in Runs :
       (/\ RunSettled(r1) /\ RunSettled(r2)
        /\ runs[r1].bank = runs[r2].bank
        /\ runs[r1].observed[1].headers = runs[r2].observed[1].headers
        /\ DifferOnlyInTokenValue(runs[r1].observed[1].page, runs[r2].observed[1].page))
         => runs[r1].result = runs[r2].result

====
